---- MODULE Spec2Model ----
(***************************************************************************)
(* Selection and extraction engine of the SpriteBat asset splitter         *)
(* (src/src/components/AssetSplitter.tsx): the selection mask, the box,    *)
(* lasso and resize-handle drags, the bounds calculator, the boundary      *)
(* tracer, the extractor and the asynchronous image loads.                 *)
(*                                                                         *)
(* Conventions of the model                                                *)
(*  - a nullable value is a sequence of length 0 (null) or 1;              *)
(*  - a canvas is [w, h, pix] with pix the alpha of every pixel; alpha is   *)
(*    quantised to 0..AlphaMax (the canvas has 0..255), the compositing    *)
(*    formulas are those of the 2D canvas;                                 *)
(*  - the zoom factor is kept in quarters (zoom 1 is 4), pointer positions  *)
(*    are canvas pixels, as canvasXY returns them;                         *)
(*  - sess and last are history variables: they record what the pointer   *)
(*    events of the running and of the last finished drag were, and are    *)
(*    read by no action;                                                   *)
(*  - the specifications share the actions: Spec (loads, unload and the    *)
(*    box tool from the construction on), SpecBox (box and handle drags    *)
(*    on every pixel corner of a 2-row image at 16x), SpecTools (box,      *)
(*    lasso, handle and pan drags on a loaded one-row image),              *)
(*    SpecExtract (the extractor on every mask of every image), SpecTick   *)
(*    (the animation loop during box drags), SpecScene (box and lasso      *)
(*    drags on a 100 x 100 image), SpecTrace (the scale of the tracer by   *)
(*    mask size), SpecLoad (loads that complete or fail around drags,      *)
(*    and remounts), SpecUndo (undo and redo of the project around         *)
(*    selections), SpecLasso (lasso drags that leave the image),           *)
(*    SpecHeap (the canvases as objects, which heap follows where          *)
(*    heap.tracked is TRUE), SpecHit (pointer-downs around the handles)    *)
(*    and SpecHistory (the undo stack at its cap).                         *)
(***************************************************************************)
EXTENDS Integers, Sequences, FiniteSets, TLC

\* ---------------------------------------------------------------- bounds
\* Width of the widest source image of the model.
MaxW == 2
\* Largest number of points a lasso drag records.
MaxPts == 3
\* Alpha of an opaque pixel (quantisation of the canvas's 255).
AlphaMax == 3
\* Width and height of the large source image (image 4).
SceneSize == 100
\* Largest number of canvas objects followed.
MaxObjs == 4

\* ------------------------------------------------------------- nullables
None == <<>>
Some(v) == <<v>>
IsSome(o) == o # <<>>
Val(o) == o[1]

Min(S) == CHOOSE m \in S : \A n \in S : m <= n
Max(S) == CHOOSE m \in S : \A n \in S : m >= n
Abs(n) == IF n < 0 THEN -n ELSE n
\* Math.round of the rational n/d (d > 0): halves round towards +infinity.
Round(n, d) == (2 * n + d) \div (2 * d)

\* ---------------------------------------------------------- source images
\* Three small decoded images: 1 is MaxW x 2, 2 is MaxW x 1, 3 is
\* (MaxW-1) x 1; image 4 is the large opaque image, SceneSize x SceneSize.
Images == {1, 2, 3}
naturalWidth(img) == IF img = 4 THEN SceneSize ELSE IF img = 3 THEN MaxW - 1 ELSE MaxW
naturalHeight(img) == IF img = 4 THEN SceneSize ELSE IF img = 1 THEN 2 ELSE 1
\* Alpha of the source pixels: images 1 and 2 have a half-transparent first
\* pixel and a transparent last pixel in their last row, image 3 is opaque.
ImageAlpha(img, x, y) ==
    IF img \in {3, 4} THEN AlphaMax
    ELSE IF x = 0 /\ y = 0 THEN AlphaMax \div 2
    ELSE IF x = MaxW - 1 /\ y = naturalHeight(img) - 1 THEN 0
    ELSE AlphaMax

Pixels(w, h) == (0 .. w - 1) \X (0 .. h - 1)

\* ------------------------------------------------------- canvas compositing
\* globalCompositeOperation on the alpha channel, source alpha s over
\* destination alpha d.
SourceOver(d, s) == s + Round(d * (AlphaMax - s), AlphaMax)
DestinationOut(d, s) == Round(d * (AlphaMax - s), AlphaMax)
DestinationIn(d, s) == Round(d * s, AlphaMax)

createMask(w, h) == [w |-> w, h |-> h, pix |-> [p \in Pixels(w, h) |-> 0]]

\* ctx.drawImage(src, 0, 0) onto canvas dst, source-over, clipped to dst.
drawImage(dst, src) ==
    [dst EXCEPT !.pix = [p \in DOMAIN dst.pix |->
        IF p \in DOMAIN src.pix THEN SourceOver(dst.pix[p], src.pix[p])
        ELSE dst.pix[p]]]

OnSet(m) == {p \in DOMAIN m.pix : m.pix[p] > 0}

\* A bounds calculator that measures from the first to the last selected
\* column and row without counting the last one.
computeBounds_exclusive(m) ==
    LET on == OnSet(m)
        minX == Min({p[1] : p \in on})
        maxX == Max({p[1] : p \in on})
        minY == Min({p[2] : p \in on})
        maxY == Max({p[2] : p \in on})
    IN IF on = {} THEN None
       ELSE Some([x |-> minX, y |-> minY, w |-> maxX - minX, h |-> maxY - minY])

computeBounds(m) ==
    LET on == OnSet(m)
        minX == Min({p[1] : p \in on})
        maxX == Max({p[1] : p \in on})
        minY == Min({p[2] : p \in on})
        maxY == Max({p[2] : p \in on})
    IN IF on = {} THEN None
       ELSE Some([x |-> minX, y |-> minY, w |-> maxX - minX + 1, h |-> maxY - minY + 1])

\* The resolution cap of the tracer.
MAX_TRACE == 512

\* A tracer capped at half the resolution.
traceScale_half(origW, origH) ==
    IF 2 * Max({origW, origH}) <= MAX_TRACE THEN <<1, 1>>
    ELSE <<MAX_TRACE, 2 * Max({origW, origH})>>

\* scale = Math.min(1, MAX_TRACE / Math.max(origW, origH)), as the fraction
\* <<numerator, denominator>>.
traceScale(origW, origH) ==
    IF Max({origW, origH}) <= MAX_TRACE THEN <<1, 1>>
    ELSE <<MAX_TRACE, Max({origW, origH})>>

\* W and H of the traced grid: Math.max(1, Math.round(orig * scale)).
traceSize(orig, scale) == Max({1, Round(orig * scale[1], scale[2])})

\* The x or y coordinates the tracer can emit, multiplied by invScale, as
\* fractions <<numerator, denominator>>.
traceCoords(n, scale) == {<<i * scale[2], scale[1]>> : i \in 0 .. n}

\* A tracer that emits the four sides of every selected pixel.
buildMaskOutlinePath_allSides(m) ==
         {<<p[1], p[2], p[1] + 1, p[2]>> : p \in OnSet(m)}
    \cup {<<p[1], p[2] + 1, p[1] + 1, p[2] + 1>> : p \in OnSet(m)}
    \cup {<<p[1], p[2], p[1], p[2] + 1>> : p \in OnSet(m)}
    \cup {<<p[1] + 1, p[2], p[1] + 1, p[2] + 1>> : p \in OnSet(m)}

\* The outline as the set of unit edges <<x1, y1, x2, y2>> the path holds
\* (trace scale 1: every mask of the model is below MAX_TRACE).
buildMaskOutlinePath(m) ==
    LET on(x, y) == <<x, y>> \in DOMAIN m.pix /\ m.pix[<<x, y>>] > 0
    IN   {<<p[1], p[2], p[1] + 1, p[2]>> : p \in {q \in OnSet(m) : ~on(q[1], q[2] - 1)}}
    \cup {<<p[1], p[2] + 1, p[1] + 1, p[2] + 1>> : p \in {q \in OnSet(m) : ~on(q[1], q[2] + 1)}}
    \cup {<<p[1], p[2], p[1], p[2] + 1>> : p \in {q \in OnSet(m) : ~on(q[1] - 1, q[2])}}
    \cup {<<p[1] + 1, p[2], p[1] + 1, p[2] + 1>> : p \in {q \in OnSet(m) : ~on(q[1] + 1, q[2])}}

\* A box painter whose subtraction erases the mask outside the rectangle
\* (destination-in in place of destination-out).
paintBox_keepInside(m, x, y, w, h, mode) ==
    LET cleared == IF mode = "replace" THEN [p \in DOMAIN m.pix |-> 0] ELSE m.pix
        inRect(p) == x <= p[1] /\ p[1] < x + w /\ y <= p[2] /\ p[2] < y + h
    IN [m EXCEPT !.pix = [p \in DOMAIN m.pix |->
          IF mode = "subtract"
          THEN IF inRect(p) THEN DestinationIn(cleared[p], AlphaMax) ELSE 0
          ELSE IF inRect(p) THEN SourceOver(cleared[p], AlphaMax) ELSE cleared[p]]]

paintBox(m, x, y, w, h, mode) ==
    LET cleared == IF mode = "replace" THEN [p \in DOMAIN m.pix |-> 0] ELSE m.pix
        inRect(p) == x <= p[1] /\ p[1] < x + w /\ y <= p[2] /\ p[2] < y + h
    IN [m EXCEPT !.pix = [p \in DOMAIN m.pix |->
          IF inRect(p)
          THEN IF mode = "subtract" THEN DestinationOut(cleared[p], AlphaMax)
               ELSE SourceOver(cleared[p], AlphaMax)
          ELSE cleared[p]]]

\* ---- polygon fill (ctx.fill, non-zero winding, anti-aliased)
\* Coordinates in eighths of a pixel; every pixel is sampled at four points
\* (a rotated grid) and its coverage is the share of samples inside the
\* closed path.
IsLeft(a, b, px, py) == (b.x - a.x) * (py - a.y) - (px - a.x) * (b.y - a.y)

EdgeWinding(a, b, px, py) ==
    IF a.y <= py /\ py < b.y /\ IsLeft(a, b, px, py) > 0 THEN 1
    ELSE IF b.y <= py /\ py < a.y /\ IsLeft(a, b, px, py) < 0 THEN -1
    ELSE 0

RECURSIVE Winding(_, _, _, _)
Winding(pts, i, px, py) ==
    IF i > Len(pts) THEN 0
    ELSE LET a == [x |-> 8 * pts[i].x, y |-> 8 * pts[i].y]
             n == pts[IF i = Len(pts) THEN 1 ELSE i + 1]
             b == [x |-> 8 * n.x, y |-> 8 * n.y]
         IN EdgeWinding(a, b, px, py) + Winding(pts, i + 1, px, py)

Samples == {<<1, 3>>, <<5, 1>>, <<3, 7>>, <<7, 5>>}

Coverage(pts, x, y) ==
    Cardinality({s \in Samples : Winding(pts, 1, 8 * x + s[1], 8 * y + s[2]) # 0})

\* Alpha the fill contributes to pixel (x, y): any covered sample makes it > 0.
FillAlpha(pts, x, y) == (Coverage(pts, x, y) * AlphaMax + 3) \div 4

\* A lasso painter that fills the bounding box of the points.
paintLasso_box(m, points, mode) ==
    LET xs == {points[i].x : i \in 1 .. Len(points)}
        ys == {points[i].y : i \in 1 .. Len(points)}
    IN IF Len(points) < 3 THEN m
       ELSE paintBox(m, Min(xs), Min(ys), Max(xs) - Min(xs), Max(ys) - Min(ys), mode)

paintLasso(m, points, mode) ==
    IF Len(points) < 3 THEN m
    ELSE LET cleared == IF mode = "replace" THEN [p \in DOMAIN m.pix |-> 0] ELSE m.pix
         IN [m EXCEPT !.pix = [p \in DOMAIN m.pix |->
               IF mode = "subtract"
               THEN DestinationOut(cleared[p], FillAlpha(points, p[1], p[2]))
               ELSE SourceOver(cleared[p], FillAlpha(points, p[1], p[2]))]]

\* ------------------------------------------------------ handle hit testing
\* ZOOM_STEPS in quarters: 0.25, 0.5, 1, 2, 4, 8, 16, 32.
ZOOM_STEPS == <<1, 2, 4, 8, 16, 32, 64, 128>>

\* Handle positions in eighths of a canvas pixel, in the order of the array.
getHandles(b, zoom) ==
    LET cx == 2 * b.x * zoom
        cy == 2 * b.y * zoom
        cw == 2 * b.w * zoom
        ch == 2 * b.h * zoom
        mx == cx + b.w * zoom
        my == cy + b.h * zoom
    IN << [id |-> "nw", px |-> cx,      py |-> cy],
          [id |-> "n",  px |-> mx,      py |-> cy],
          [id |-> "ne", px |-> cx + cw, py |-> cy],
          [id |-> "e",  px |-> cx + cw, py |-> my],
          [id |-> "se", px |-> cx + cw, py |-> cy + ch],
          [id |-> "s",  px |-> mx,      py |-> cy + ch],
          [id |-> "sw", px |-> cx,      py |-> cy + ch],
          [id |-> "w",  px |-> cx,      py |-> my] >>

\* A hit test whose radius is 6 image pixels, so that it grows with the zoom.
hitHandle_zoomRadius(px, py, b, zoom) ==
    LET hs == getHandles(b, zoom)
        hit == {i \in 1 .. 8 : /\ Abs(8 * px - hs[i].px) <= 12 * zoom
                               /\ Abs(8 * py - hs[i].py) <= 12 * zoom}
    IN IF hit = {} THEN None ELSE Some(hs[Min(hit)].id)

\* RADIUS = 6 canvas pixels, 48 eighths; the first handle hit wins.
hitHandle(px, py, b, zoom) ==
    LET hs == getHandles(b, zoom)
        hit == {i \in 1 .. 8 : Abs(8 * px - hs[i].px) <= 48 /\ Abs(8 * py - hs[i].py) <= 48}
    IN IF hit = {} THEN None ELSE Some(hs[Min(hit)].id)

HasW(id) == id \in {"nw", "sw", "w"}
HasE(id) == id \in {"ne", "se", "e"}
HasN(id) == id \in {"nw", "ne", "n"}
HasS(id) == id \in {"sw", "se", "s"}

\* --------------------------------------------------------------- extractor
\* A trim that keeps the whole canvas as soon as one pixel is visible.
trimTransparent_whole(c) ==
    IF OnSet(c) = {} THEN None ELSE Some([x |-> 0, y |-> 0, w |-> c.w, h |-> c.h])

trimTransparent(c) ==
    LET on == OnSet(c)
        minX == Min({p[1] : p \in on})
        maxX == Max({p[1] : p \in on})
        minY == Min({p[2] : p \in on})
        maxY == Max({p[2] : p \in on})
    IN IF on = {} THEN None
       ELSE Some([x |-> minX, y |-> minY, w |-> maxX - minX + 1, h |-> maxY - minY + 1])

\* The crop before trimming: the image drawn from bounds, then the mask drawn
\* from bounds with destination-in (outside either canvas the source is
\* transparent).
CropThroughMask(img, m, b) ==
    LET src(p) == IF p[1] + b.x < naturalWidth(img) /\ p[2] + b.y < naturalHeight(img)
                  THEN ImageAlpha(img, p[1] + b.x, p[2] + b.y) ELSE 0
        cov(p) == IF <<p[1] + b.x, p[2] + b.y>> \in DOMAIN m.pix
                  THEN m.pix[<<p[1] + b.x, p[2] + b.y>>] ELSE 0
    IN [w |-> b.w, h |-> b.h,
        pix |-> [p \in Pixels(b.w, b.h) |-> DestinationIn(src(p), cov(p))]]

\* An extraction that returns an empty canvas when the crop is blank.
extractThroughMask_emptyBlank(img, m, b) ==
    LET crop == CropThroughMask(img, m, b)
        trimmed == trimTransparent(crop)
        t == IF trimmed = None THEN [x |-> 0, y |-> 0, w |-> 0, h |-> 0] ELSE Val(trimmed)
    IN [w |-> t.w, h |-> t.h,
        pix |-> [p \in Pixels(t.w, t.h) |-> crop.pix[<<p[1] + t.x, p[2] + t.y>>]]]

extractThroughMask(img, m, b) ==
    LET crop == CropThroughMask(img, m, b)
        trimmed == trimTransparent(crop)
    IN IF trimmed = None THEN crop
       ELSE LET t == Val(trimmed)
            IN [w |-> t.w, h |-> t.h,
                pix |-> [p \in Pixels(t.w, t.h) |-> crop.pix[<<p[1] + t.x, p[2] + t.y>>]]]

\* ------------------------------------------------------ coordinate helpers
toImgCoords(cx, cy, zoom) == [x |-> Round(4 * cx, zoom), y |-> Round(4 * cy, zoom)]

clampToImg(x, y, img) ==
    [x |-> Max({0, Min({x, naturalWidth(img)})}),
     y |-> Max({0, Min({y, naturalHeight(img)})})]

selectionMode(shiftKey, altKey) ==
    IF shiftKey THEN "add" ELSE IF altKey THEN "subtract" ELSE "replace"

\* ------------------------------------------------------------------- state
VARIABLES
    image,      \* splitter.image: 0 (null) or an image
    mask,       \* splitter.selectionMask, nullable canvas
    bounds,     \* splitter.selectionBounds, nullable rectangle
    extracted,  \* splitter.extractedCanvas, nullable canvas
    outline,    \* maskOutlineRef, nullable set of edges
    drag,       \* dragRef
    liveRect,   \* liveDragRectRef, nullable rectangle
    tool,       \* the selected tool
    zoom,       \* the zoom factor, in quarters
    pending,    \* the onload handlers of the image loads in flight
    phase,      \* marchingPhaseRef: the dash phase of the marching ants
    app,        \* the undo/redo envelope and the project fields of its present
    heap,       \* the canvas objects behind the mask and the extracted image
    sess,       \* history: the pointer events of the running drag
    last        \* history: the last pointer-up, pointer-leave or extraction

vars == <<image, mask, bounds, extracted, outline, drag, liveRect, tool, zoom,
          pending, phase, app, heap, sess, last>>

committed == <<mask, bounds, outline, extracted>>

NoDrag == [kind |-> "none"]
NoSess == [moved |-> FALSE]
NoLast == [ev |-> "none"]

\* The canvases as objects: obj holds the content of every canvas created
\* for a mask or an extraction, in the order of creation; mask and ext are
\* the objects splitter.selectionMask and splitter.extractedCanvas refer to
\* (0 is null). The objects are followed only where tracked is TRUE.
NoHeap == [tracked |-> FALSE]
NewHeap == [tracked |-> TRUE, obj |-> <<>>, mask |-> 0, ext |-> 0]

\* A commit that paints into the canvas of the committed mask.
CommitTarget_inPlace(h) == IF h.mask # 0 THEN h.mask ELSE Len(h.obj) + 1

\* The canvas a commit paints into: the one createMask has just created.
CommitTarget(h) == Len(h.obj) + 1

\* commitMask on the objects: the canvas painted into holds m and becomes
\* the selection mask; the extracted canvas becomes null.
HeapCommit(h, m) ==
    IF ~h.tracked THEN h
    ELSE LET id == CommitTarget(h)
         IN [h EXCEPT !.obj = IF id > Len(h.obj) THEN Append(h.obj, m)
                              ELSE [h.obj EXCEPT ![id] = m],
                      !.mask = id, !.ext = 0]

\* doExtract on the objects: extractThroughMask returns a canvas it created.
HeapExtract(h, r) ==
    IF ~h.tracked \/ r = None THEN h
    ELSE [h EXCEPT !.obj = Append(h.obj, Val(r)), !.ext = Len(h.obj) + 1]

\* SET_SPLITTER with selectionMask: null and extractedCanvas: null.
HeapNull(h) == IF h.tracked THEN [h EXCEPT !.mask = 0, !.ext = 0] ELSE h

\* initialState without its splitter, and the empty history of
\* buildUndoRedoState. A config is identified by a number, a layer and a
\* library asset by its id.
InitApp == [past |-> <<>>, future |-> <<>>, config |-> 0, layers |-> <<>>,
            selectedLayerId |-> None, library |-> <<>>, showConfig |-> FALSE]

Init ==
    /\ image = 0
    /\ mask = None
    /\ bounds = None
    /\ extracted = None
    /\ outline = None
    /\ drag = NoDrag
    /\ liveRect = None
    /\ tool = "box"
    /\ zoom = ZOOM_STEPS[3]
    /\ pending = {}
    /\ phase = 0
    /\ app = InitApp
    /\ heap = NoHeap
    /\ sess = NoSess
    /\ last = NoLast

\* ------------------------------------------------------------- image loads
LoadKinds == {"file", "drop", "layer"}

\* The onload handler a load installs: the one of onDrop, or the one the file
\* input's onChange and loadCanvasIntoSplitter have in common.
Handler(kind) == IF kind = "drop" THEN "drop" ELSE "reset"

\* The file input's onChange, onDrop of the empty state's drop zone (only
\* rendered while no image is loaded) and loadCanvasIntoSplitter: each starts
\* a decode whose onload runs later. At most one load per handler is in
\* flight.
StartLoad(kind) ==
    /\ Handler(kind) \notin pending
    /\ kind = "drop" => image = 0
    /\ pending' = pending \cup {Handler(kind)}
    /\ last' = NoLast
    /\ UNCHANGED <<image, mask, bounds, extracted, outline, drag, liveRect, tool, zoom, app, heap, sess, phase>>

\* img.onload of the file input and of loadCanvasIntoSplitter.
OnLoadReset(img) ==
    /\ outline' = None
    /\ image' = img
    /\ mask' = None
    /\ bounds' = None
    /\ extracted' = None
    /\ heap' = HeapNull(heap)

\* img.onload of onDrop: dispatches the image and the object URL only.
OnLoadDrop(img) ==
    /\ outline' = None
    /\ image' = img
    /\ UNCHANGED <<mask, bounds, extracted, heap>>

CompleteLoad(handler, img) ==
    /\ handler \in pending
    /\ pending' = pending \ {handler}
    /\ IF handler = "drop" THEN OnLoadDrop(img) ELSE OnLoadReset(img)
    /\ last' = NoLast
    /\ UNCHANGED <<drag, liveRect, tool, zoom, app, sess, phase>>

\* The error handler a load installs on its Image: none, the loads assign
\* img.onload only.
onerror(handler) == None

\* The decode of a pending load fails: the browser fires the error event of
\* the Image, which runs the error handler if there is one; onload never
\* runs. last records whether anything was handed to the caller.
FailLoad(handler) ==
    /\ handler \in pending
    /\ pending' = pending \ {handler}
    /\ last' = [ev |-> "error", handler |-> handler, outcome |-> onerror(handler)]
    /\ UNCHANGED <<image, mask, bounds, extracted, outline, drag, liveRect, tool, zoom, app, heap,
                   sess, phase>>

\* SET_TAB to another tab and back to the splitter: App renders AssetSplitter
\* only while the splitter tab is active, so the component is unmounted and
\* mounted again. Its refs and its local state start from their initial
\* values; the splitter state of the reducer is kept.
remount ==
    /\ outline' = None
    /\ drag' = NoDrag
    /\ liveRect' = None
    /\ tool' = "box"
    /\ zoom' = ZOOM_STEPS[3]
    /\ phase' = 0
    /\ sess' = NoSess
    /\ last' = NoLast
    /\ UNCHANGED <<image, mask, bounds, extracted, pending, app, heap>>

\* ---------------------------------------------------------- pointer events
\* The canvas element is as large as the image times the zoom factor.
CanvasW == Round(naturalWidth(image) * zoom, 4)
CanvasH == Round(naturalHeight(image) * zoom, 4)

\* A pointer-down hits the canvas element.
OnCanvas(cx, cy) == 0 <= cx /\ cx <= CanvasW /\ 0 <= cy /\ cy <= CanvasH

\* The span of two image coordinates, clamped to 0 .. n.
Span(a, b, n) ==
    LET lo == Max({0, Min({a, b, n})})
        hi == Min({n, Max({a, b, 0})})
    IN [lo |-> lo, len |-> hi - lo]

\* History of a box drag's pointer: is it on the start column and row, and
\* the rectangle it spans with the start position, clamped to the image.
Pointer(d, ip, img) ==
    LET sx == Span(d.startImgX, ip.x, naturalWidth(img))
        sy == Span(d.startImgY, ip.y, naturalHeight(img))
    IN [sameX |-> ip.x = d.startImgX, sameY |-> ip.y = d.startImgY,
        span |-> [x |-> sx.lo, y |-> sy.lo, w |-> sx.len, h |-> sy.len]]

\* The history of a drag at its pointer-down.
DownSess(d, ip, shiftKey, altKey) ==
    IF d.kind = "box"
    THEN [moved |-> FALSE, shiftKey |-> shiftKey, altKey |-> altKey,
          ptr |-> Pointer(d, ip, image)]
    ELSE IF d.kind = "lasso"
    THEN [moved |-> FALSE, shiftKey |-> shiftKey, altKey |-> altKey]
    ELSE [moved |-> FALSE]

\* A pointer-down that starts a selection drag with every button.
DownDrag_anyButton(cx, cy, button, shiftKey, altKey) ==
    LET ip == toImgCoords(cx, cy, zoom)
        mode == selectionMode(shiftKey, altKey)
        handle == IF tool = "box" /\ IsSome(bounds)
                  THEN hitHandle(cx, cy, Val(bounds), zoom) ELSE None
    IN IF IsSome(handle)
       THEN [kind |-> "handle", handleId |-> Val(handle), origBounds |-> Val(bounds),
             startImgX |-> ip.x, startImgY |-> ip.y]
       ELSE IF tool = "box"
       THEN [kind |-> "box", mode |-> mode, startImgX |-> ip.x, startImgY |-> ip.y]
       ELSE [kind |-> "lasso", mode |-> mode, points |-> <<clampToImg(ip.x, ip.y, image)>>]

\* The drag a pointer-down starts.
DownDrag(cx, cy, button, shiftKey, altKey) ==
    LET ip == toImgCoords(cx, cy, zoom)
        mode == selectionMode(shiftKey, altKey)
        handle == IF tool = "box" /\ IsSome(bounds)
                  THEN hitHandle(cx, cy, Val(bounds), zoom) ELSE None
    IN IF button = 1 THEN [kind |-> "pan"]
       ELSE IF IsSome(handle)
       THEN [kind |-> "handle", handleId |-> Val(handle), origBounds |-> Val(bounds),
             startImgX |-> ip.x, startImgY |-> ip.y]
       ELSE IF tool = "box"
       THEN [kind |-> "box", mode |-> mode, startImgX |-> ip.x, startImgY |-> ip.y]
       ELSE [kind |-> "lasso", mode |-> mode, points |-> <<clampToImg(ip.x, ip.y, image)>>]

onPointerDown(cx, cy, button, shiftKey, altKey) ==
    /\ image # 0
    /\ OnCanvas(cx, cy)
    /\ drag' = DownDrag(cx, cy, button, shiftKey, altKey)
    /\ sess' = DownSess(drag', toImgCoords(cx, cy, zoom), shiftKey, altKey)
    /\ last' = NoLast
    /\ UNCHANGED <<image, mask, bounds, extracted, outline, liveRect, tool, zoom, app, heap, pending, phase>>

\* A box drag whose rectangle includes the pixel under the pointer.
BoxRect_inclusive(d, ip, img) ==
    LET x == Max({0, Min({d.startImgX, ip.x})})
        y == Max({0, Min({d.startImgY, ip.y})})
    IN [x |-> x, y |-> y,
        w |-> Min({Abs(ip.x - d.startImgX) + 1, naturalWidth(img) - x}),
        h |-> Min({Abs(ip.y - d.startImgY) + 1, naturalHeight(img) - y})]

\* The candidate rectangle of a box drag at image position ip.
BoxRect(d, ip, img) ==
    LET x == Max({0, Min({d.startImgX, ip.x})})
        y == Max({0, Min({d.startImgY, ip.y})})
    IN [x |-> x, y |-> y,
        w |-> Min({Abs(ip.x - d.startImgX), naturalWidth(img) - x}),
        h |-> Min({Abs(ip.y - d.startImgY), naturalHeight(img) - y})]

\* The candidate rectangle of a handle drag at image position ip.
\* A handle drag without the minimum of one pixel on the e and s edges.
HandleRect_noMin(d, ip, img) ==
    LET o == d.origBounds
        dx == ip.x - d.startImgX
        dy == ip.y - d.startImgY
        x1 == IF HasW(d.handleId) THEN Min({o.x + o.w - 1, o.x + dx}) ELSE o.x
        w1 == IF HasW(d.handleId) THEN o.x + o.w - x1 ELSE o.w
        w2 == IF HasE(d.handleId) THEN o.w + dx ELSE w1
        y1 == IF HasN(d.handleId) THEN Min({o.y + o.h - 1, o.y + dy}) ELSE o.y
        h1 == IF HasN(d.handleId) THEN o.y + o.h - y1 ELSE o.h
        h2 == IF HasS(d.handleId) THEN o.h + dy ELSE h1
        x == Max({0, x1})
        y == Max({0, y1})
    IN [x |-> x, y |-> y,
        w |-> Min({w2, naturalWidth(img) - x}),
        h |-> Min({h2, naturalHeight(img) - y})]

HandleRect(d, ip, img) ==
    LET o == d.origBounds
        dx == ip.x - d.startImgX
        dy == ip.y - d.startImgY
        x1 == IF HasW(d.handleId) THEN Min({o.x + o.w - 1, o.x + dx}) ELSE o.x
        w1 == IF HasW(d.handleId) THEN o.x + o.w - x1 ELSE o.w
        w2 == IF HasE(d.handleId) THEN Max({1, o.w + dx}) ELSE w1
        y1 == IF HasN(d.handleId) THEN Min({o.y + o.h - 1, o.y + dy}) ELSE o.y
        h1 == IF HasN(d.handleId) THEN o.y + o.h - y1 ELSE o.h
        h2 == IF HasS(d.handleId) THEN Max({1, o.h + dy}) ELSE h1
        x == Max({0, x1})
        y == Max({0, y1})
    IN [x |-> x, y |-> y,
        w |-> Min({w2, naturalWidth(img) - x}),
        h |-> Min({h2, naturalHeight(img) - y})]

\* The drag reference after a pointer-move: only a lasso drag changes, by the
\* point it appends when the pointer is 2 image pixels from the last one.
MovedDrag(d, ip, img) ==
    IF d.kind = "lasso"
       /\ (Abs(ip.x - d.points[Len(d.points)].x) >= 2
           \/ Abs(ip.y - d.points[Len(d.points)].y) >= 2)
    THEN [d EXCEPT !.points = Append(@, clampToImg(ip.x, ip.y, img))]
    ELSE d

\* The live rectangle after a pointer-move.
MovedRect(d, ip, img, live) ==
    LET r == IF d.kind = "box" THEN BoxRect(d, ip, img) ELSE HandleRect(d, ip, img)
    IN IF d.kind \in {"box", "handle"} /\ r.w > 0 /\ r.h > 0 THEN Some(r) ELSE live

\* The history of a drag after a pointer-move.
MovedSess(d, ip, h) ==
    IF d.kind = "none" THEN h
    ELSE IF d.kind = "box" THEN [h EXCEPT !.moved = TRUE, !.ptr = Pointer(d, ip, image)]
    ELSE [h EXCEPT !.moved = TRUE]

\* A pointer-move that drops the cached outline, to have it traced again.
onPointerMove_retrace(cx, cy) ==
    LET ip == toImgCoords(cx, cy, zoom)
    IN /\ image # 0
       /\ drag.kind = "lasso" => Len(MovedDrag(drag, ip, image).points) <= MaxPts
       /\ drag' = MovedDrag(drag, ip, image)
       /\ liveRect' = MovedRect(drag, ip, image, liveRect)
       /\ sess' = MovedSess(drag, ip, sess)
       /\ last' = NoLast
       /\ outline' = None
       /\ UNCHANGED <<image, mask, bounds, extracted, tool, zoom, app, heap, pending, phase>>

onPointerMove(cx, cy) ==
    LET ip == toImgCoords(cx, cy, zoom)
    IN /\ image # 0
       /\ drag.kind = "lasso" => Len(MovedDrag(drag, ip, image).points) <= MaxPts
       /\ drag' = MovedDrag(drag, ip, image)
       /\ liveRect' = MovedRect(drag, ip, image, liveRect)
       /\ sess' = MovedSess(drag, ip, sess)
       /\ last' = NoLast
       /\ UNCHANGED <<image, mask, bounds, extracted, outline, tool, zoom, app, heap, pending, phase>>

\* A commit that reads the mode from the modifier keys of the pointer-up.
CommitMode_atUp(d, shiftKey, altKey) ==
    IF d.kind = "handle" THEN "replace" ELSE selectionMode(shiftKey, altKey)

\* The mode a pointer-up paints with; the modifier keys of the pointer-up
\* itself are not read.
CommitMode(d, shiftKey, altKey) == IF d.kind = "handle" THEN "replace" ELSE d.mode

\* A commit that always starts from an empty mask.
BaseMask_fresh(d, img, prev) == createMask(naturalWidth(img), naturalHeight(img))

\* The mask a pointer-up starts painting on: a new canvas, with the previous
\* mask drawn into it for a box or lasso drag that adds or subtracts.
BaseMask(d, img, prev) ==
    LET m == createMask(naturalWidth(img), naturalHeight(img))
    IN IF d.kind \in {"box", "lasso"} /\ d.mode # "replace" /\ IsSome(prev)
       THEN drawImage(m, Val(prev)) ELSE m

\* A pointer-up that commits every lasso drag, however few points it has.
Commits_anyLasso(d, live) ==
    \/ d.kind = "lasso"
    \/ d.kind \in {"box", "handle"} /\ IsSome(live)

\* Does this pointer-up commit a mask?
Commits(d, live) ==
    \/ d.kind = "lasso" /\ Len(d.points) >= 3
    \/ d.kind \in {"box", "handle"} /\ IsSome(live)

\* A commit whose Replace paints over the previous mask without clearing it.
NewMask_over(d, live, img, prev, mode) ==
    LET m == createMask(naturalWidth(img), naturalHeight(img))
        base == IF IsSome(prev) THEN drawImage(m, Val(prev)) ELSE m
        over == IF mode = "replace" THEN "add" ELSE mode
    IN IF d.kind = "lasso"
       THEN paintLasso(base, d.points, over)
       ELSE paintBox(base, Val(live).x, Val(live).y, Val(live).w, Val(live).h, over)

\* The mask a committing pointer-up builds.
NewMask(d, live, img, prev, mode) ==
    IF d.kind = "lasso"
    THEN paintLasso(BaseMask(d, img, prev), d.points, mode)
    ELSE paintBox(BaseMask(d, img, prev), Val(live).x, Val(live).y, Val(live).w,
                  Val(live).h, mode)

commitMask(m) ==
    /\ outline' = Some(buildMaskOutlinePath(m))
    /\ mask' = Some(m)
    /\ bounds' = computeBounds(m)
    /\ extracted' = None
    /\ heap' = HeapCommit(heap, m)

\* The body of onPointerUp: the drag ends and commits the shape in progress.
endDrag(shiftKey, altKey) ==
    /\ image # 0
    /\ drag' = NoDrag
    /\ liveRect' = None
    /\ IF Commits(drag, liveRect)
       THEN commitMask(NewMask(drag, liveRect, image, mask,
                               CommitMode(drag, shiftKey, altKey)))
       ELSE UNCHANGED <<mask, bounds, outline, extracted, heap>>
    /\ sess' = NoSess
    /\ UNCHANGED <<image, tool, zoom, app, pending, phase>>

\* The history of the drag that the event ev ("up" or "leave") ends.
EndLast(ev, shiftKey, altKey) ==
    IF drag.kind = "none" THEN NoLast
    ELSE [ev |-> ev, kind |-> drag.kind, sess |-> sess, live |-> liveRect,
          did |-> Commits(drag, liveRect), pre |-> committed,
          upMode |-> selectionMode(shiftKey, altKey)]

\* onPointerUp as the canvas' pointer-up handler.
onPointerUp(shiftKey, altKey) ==
    /\ endDrag(shiftKey, altKey)
    /\ last' = EndLast("up", shiftKey, altKey)

\* A pointer-leave that drops the drag without committing it.
onPointerLeave_cancel(shiftKey, altKey) ==
    /\ image # 0
    /\ drag' = NoDrag
    /\ liveRect' = None
    /\ sess' = NoSess
    /\ last' = EndLast("leave", shiftKey, altKey)
    /\ UNCHANGED <<image, mask, bounds, outline, extracted, tool, zoom, app, heap, pending, phase>>

\* onPointerUp as the canvas' pointer-leave handler.
onPointerLeave(shiftKey, altKey) ==
    /\ endDrag(shiftKey, altKey)
    /\ last' = EndLast("leave", shiftKey, altKey)

\* ----------------------------------------------------------------- toolbar
setTool(t) ==
    /\ image # 0
    /\ t # tool
    /\ tool' = t
    /\ last' = NoLast
    /\ UNCHANGED <<image, mask, bounds, extracted, outline, drag, liveRect, zoom, app, heap, pending, sess, phase>>

\* An extraction that crops an unbounded selection to the whole image.
ExtractResult_unbounded ==
    IF image = 0 \/ ~IsSome(mask) THEN None
    ELSE Some(extractThroughMask(image, Val(mask),
              IF IsSome(bounds) THEN Val(bounds)
              ELSE [x |-> 0, y |-> 0, w |-> naturalWidth(image), h |-> naturalHeight(image)]))

\* What doExtract returns: null without an image, a mask or bounds.
ExtractResult ==
    IF image = 0 \/ ~IsSome(mask) \/ ~IsSome(bounds) THEN None
    ELSE Some(extractThroughMask(image, Val(mask), Val(bounds)))

\* doExtract stores what it returns, unless it returns null.
doExtract ==
    /\ extracted' = IF IsSome(ExtractResult) THEN ExtractResult ELSE extracted
    /\ heap' = HeapExtract(heap, ExtractResult)
    /\ last' = [ev |-> "extract", result |-> ExtractResult]
    /\ UNCHANGED <<image, mask, bounds, outline, drag, liveRect, tool, zoom, app, pending, sess, phase>>

\* The Extract buttons are rendered while a selection exists.
hasSelection == IsSome(mask) /\ IsSome(bounds)

\* The Clear button is enabled while a selection or an extraction exists.
handleClear ==
    /\ image # 0
    /\ (IsSome(mask) /\ IsSome(bounds)) \/ IsSome(extracted)
    /\ outline' = None
    /\ mask' = None
    /\ bounds' = None
    /\ extracted' = None
    /\ heap' = HeapNull(heap)
    /\ last' = NoLast
    /\ UNCHANGED <<image, drag, liveRect, tool, zoom, app, pending, sess, phase>>

handleSelectAll ==
    /\ image # 0
    /\ commitMask(paintBox(createMask(naturalWidth(image), naturalHeight(image)),
                           0, 0, naturalWidth(image), naturalHeight(image), "replace"))
    /\ last' = NoLast
    /\ UNCHANGED <<image, drag, liveRect, tool, zoom, app, pending, sess, phase>>

handleUnload ==
    /\ image # 0
    /\ outline' = None
    /\ image' = 0
    /\ mask' = None
    /\ bounds' = None
    /\ extracted' = None
    /\ heap' = HeapNull(heap)
    /\ last' = NoLast
    /\ UNCHANGED <<drag, liveRect, tool, zoom, app, pending, sess, phase>>

\* ----------------------------------------------------------- animation loop
\* The dash phases of the marching ants.
Phases == 8

\* tick: is there anything to animate?
hasAnything == IsSome(outline) \/ drag.kind # "none"

\* An animation frame more than 80 ms after the last repaint.
tick ==
    /\ phase' = IF hasAnything THEN (phase + 1) % Phases ELSE phase
    /\ UNCHANGED <<image, mask, bounds, extracted, outline, drag, liveRect, tool, zoom, app, heap,
                   pending, sess, last>>

\* ----------------------------------------------------------- specifications
\* The modifier keys of a pointer event: none, Shift, Alt.
\* ------------------------------------------------------------- undo, redo
\* Maximum number of undo steps kept in memory.
MAX_HISTORY == 100

\* The largest history, number of layers and number of library assets the
\* specification explores.
MaxHist == 2
MaxLayers == 2
MaxAssets == 1

\* state.present: the project fields and the splitter state.
present ==
    [config |-> app.config, layers |-> app.layers,
     selectedLayerId |-> app.selectedLayerId, library |-> app.library,
     showConfig |-> app.showConfig,
     splitter |-> [image |-> image, selectionMask |-> mask,
                   selectionBounds |-> bounds, extractedCanvas |-> extracted]]

initialState ==
    [config |-> 0, layers |-> <<>>, selectedLayerId |-> None, library |-> <<>>,
     showConfig |-> FALSE,
     splitter |-> [image |-> 0, selectionMask |-> None, selectionBounds |-> None,
                   extractedCanvas |-> None]]

\* A snapshot that does not keep the selected layer.
snapshot_noSelection(s) ==
    [config |-> s.config, layers |-> s.layers,
     selectedLayerId |-> None, library |-> s.library]

snapshot(s) ==
    [config |-> s.config, layers |-> s.layers,
     selectedLayerId |-> s.selectedLayerId, library |-> s.library]

\* A restore that starts from the initial state instead of the present.
applySnapshot_initial(p, snap) ==
    [initialState EXCEPT !.config = snap.config, !.layers = snap.layers,
                         !.selectedLayerId = snap.selectedLayerId,
                         !.library = snap.library]

applySnapshot(p, snap) ==
    [p EXCEPT !.config = snap.config, !.layers = snap.layers,
              !.selectedLayerId = snap.selectedLayerId,
              !.library = snap.library]

\* A set of undoable actions that also holds two actions of the interface.
UNDOABLE_withInterface ==
    {"SET_CONFIG", "ADD_LAYER", "ADD_LIBRARY_ASSET", "SELECT_LAYER", "TOGGLE_CONFIG"}

UNDOABLE == {"SET_CONFIG", "ADD_LAYER", "ADD_LIBRARY_ASSET"}

\* The inner reducer, for the actions of the model. The layers of the model
\* carry no input layout, so SET_CONFIG leaves them as they are.
appReducer(state, action) ==
    CASE action.type = "SET_CONFIG" ->
            [state EXCEPT !.config = action.config, !.showConfig = FALSE]
      [] action.type = "ADD_LAYER" ->
            [state EXCEPT !.layers = Append(state.layers, action.id),
                          !.selectedLayerId = Some(action.id)]
      [] action.type = "SELECT_LAYER" ->
            [state EXCEPT !.selectedLayerId = Some(action.id)]
      [] action.type = "TOGGLE_CONFIG" ->
            [state EXCEPT !.showConfig = ~state.showConfig]
      [] action.type = "ADD_LIBRARY_ASSET" ->
            [state EXCEPT !.library = Append(state.library, action.id)]
      [] action.type = "LOAD_PROJECT" ->
            [state EXCEPT !.config = action.config, !.layers = action.layers,
                          !.selectedLayerId = action.selectedLayerId,
                          !.library = action.library, !.showConfig = FALSE]
      [] action.type = "CLOSE_PROJECT" ->
            [initialState EXCEPT !.config = state.config]
      [] OTHER -> state

\* A history that is never cut.
TrimHistory_none(past) == past

\* past.length > MAX_HISTORY ? past.slice(-MAX_HISTORY) : past
TrimHistory(past) ==
    IF Len(past) > MAX_HISTORY
    THEN SubSeq(past, Len(past) - MAX_HISTORY + 1, Len(past))
    ELSE past

undoRedoReducer(state, action) ==
    IF action.type = "UNDO" THEN
        IF Len(state.past) = 0 THEN state
        ELSE [past |-> SubSeq(state.past, 1, Len(state.past) - 1),
              present |-> applySnapshot(state.present, state.past[Len(state.past)]),
              future |-> <<snapshot(state.present)>> \o state.future]
    ELSE IF action.type = "REDO" THEN
        IF Len(state.future) = 0 THEN state
        ELSE [past |-> Append(state.past, snapshot(state.present)),
              present |-> applySnapshot(state.present, state.future[1]),
              future |-> Tail(state.future)]
    ELSE IF action.type = "SNAPSHOT" THEN
        [past |-> TrimHistory(Append(state.past, snapshot(state.present))),
         present |-> state.present,
         future |-> <<>>]
    ELSE IF action.type \in {"LOAD_PROJECT", "CLOSE_PROJECT"} THEN
        [past |-> <<>>, present |-> appReducer(state.present, action), future |-> <<>>]
    ELSE IF action.type \in UNDOABLE THEN
        [past |-> TrimHistory(Append(state.past, snapshot(state.present))),
         present |-> appReducer(state.present, action),
         future |-> <<>>]
    ELSE [state EXCEPT !.present = appReducer(state.present, action)]

\* dispatch of App: the reducer replaces the envelope; the component of the
\* splitter keeps its refs and its local state.
dispatch(action) ==
    LET next == undoRedoReducer([past |-> app.past, present |-> present,
                                 future |-> app.future], action)
    IN  /\ app' = [past |-> next.past, future |-> next.future,
                   config |-> next.present.config, layers |-> next.present.layers,
                   selectedLayerId |-> next.present.selectedLayerId,
                   library |-> next.present.library,
                   showConfig |-> next.present.showConfig]
        /\ image' = next.present.splitter.image
        /\ mask' = next.present.splitter.selectionMask
        /\ bounds' = next.present.splitter.selectionBounds
        /\ extracted' = next.present.splitter.extractedCanvas
        /\ last' = [ev |-> action.type]
        /\ heap' = IF next.present.splitter.selectionMask = None
                   THEN HeapNull(heap) ELSE heap
        /\ UNCHANGED <<outline, drag, liveRect, tool, zoom, pending, phase, sess>>

Modifiers == {<<FALSE, FALSE>>, <<TRUE, FALSE>>, <<FALSE, TRUE>>}

\* Spec: the life of the splitter from its construction with the tool the
\* construction selects (box), on the two one-row images, at the zoom the
\* construction leaves (1x), with pointer events on the corners of the image.
SmallImages == {2, 3}
Corner(n) == {0, (n * zoom) \div 4}

Next ==
    \/ \E kind \in LoadKinds : StartLoad(kind)
    \/ \E handler \in {"reset", "drop"}, img \in SmallImages : CompleteLoad(handler, img)
    \/ \E cx \in Corner(naturalWidth(image)), cy \in Corner(naturalHeight(image)),
          k \in Modifiers :
            onPointerDown(cx, cy, 0, k[1], k[2])
    \/ onPointerDown(0, 0, 1, FALSE, FALSE)
    \/ \E cx \in Corner(naturalWidth(image)), cy \in Corner(naturalHeight(image)) :
            onPointerMove(cx, cy)
    \/ \E k \in Modifiers : onPointerUp(k[1], k[2])
    \/ hasSelection /\ doExtract
    \/ handleClear
    \/ handleSelectAll
    \/ handleUnload

Spec == Init /\ [][Next]_vars

\* SpecBox: box and handle drags on image 1 at 16x, with pointer events on
\* every pixel corner from one image pixel outside the image and, for a
\* pointer-down, also 7 canvas pixels right of a corner (outside the hit
\* radius of a handle on that corner); the modifier keys are released
\* before the pointer-up.
InitBox ==
    /\ image = 1
    /\ mask = None
    /\ bounds = None
    /\ extracted = None
    /\ outline = None
    /\ drag = NoDrag
    /\ liveRect = None
    /\ tool = "box"
    /\ zoom = ZOOM_STEPS[7]
    /\ pending = {}
    /\ phase = 0
    /\ app = InitApp
    /\ heap = NoHeap
    /\ sess = NoSess
    /\ last = NoLast

GridDownX == {(i * zoom) \div 4 : i \in 0 .. naturalWidth(image)}
             \cup {(i * zoom) \div 4 + 7 : i \in 0 .. naturalWidth(image) - 1}
GridDownY == {(i * zoom) \div 4 : i \in 0 .. naturalHeight(image)}
GridMove(n) == {(i * zoom) \div 4 : i \in -1 .. n + 1}

NextBox ==
    \/ \E cx \in GridDownX, cy \in GridDownY, k \in Modifiers :
            onPointerDown(cx, cy, 0, k[1], k[2])
    \/ \E cx \in GridMove(naturalWidth(image)), cy \in GridMove(naturalHeight(image)) :
            onPointerMove(cx, cy)
    \/ onPointerUp(FALSE, FALSE)
    \/ handleClear
    \/ handleSelectAll

SpecBox == InitBox /\ [][NextBox]_vars

\* SpecTools: box, lasso, handle and pan drags on image 2 at 1x, with pointer
\* events on the corners of the image; a drag ends by a pointer-up or by a
\* pointer-leave (the latter with no modifier key held).
InitTools ==
    /\ image = 2
    /\ mask = None
    /\ bounds = None
    /\ extracted = None
    /\ outline = None
    /\ drag = NoDrag
    /\ liveRect = None
    /\ tool = "box"
    /\ zoom = ZOOM_STEPS[3]
    /\ pending = {}
    /\ phase = 0
    /\ app = InitApp
    /\ heap = NoHeap
    /\ sess = NoSess
    /\ last = NoLast

NextTools ==
    \/ \E cx \in Corner(naturalWidth(image)), cy \in Corner(naturalHeight(image)),
          k \in Modifiers :
            onPointerDown(cx, cy, 0, k[1], k[2])
    \/ onPointerDown(0, 0, 1, FALSE, FALSE)
    \/ \E cx \in Corner(naturalWidth(image)), cy \in Corner(naturalHeight(image)) :
            onPointerMove(cx, cy)
    \/ \E k \in Modifiers : onPointerUp(k[1], k[2])
    \/ onPointerLeave(FALSE, FALSE)
    \/ \E t \in {"box", "lasso"} : setTool(t)
    \/ hasSelection /\ doExtract
    \/ handleClear
    \/ handleSelectAll

SpecTools == InitTools /\ [][NextTools]_vars

\* SpecExtract: extraction as a function of its inputs. It starts without
\* an image, or with an image and no mask, or with an image and any mask of
\* its size as a commit leaves it; doExtract is called in every state.
Masks(img) ==
    {[w |-> naturalWidth(img), h |-> naturalHeight(img), pix |-> f] :
        f \in [Pixels(naturalWidth(img), naturalHeight(img)) -> 0 .. AlphaMax]}

InitExtract ==
    /\ image \in {0} \cup Images
    /\ mask \in {None} \cup (IF image = 0 THEN {} ELSE {Some(m) : m \in Masks(image)})
    /\ bounds = IF IsSome(mask) THEN computeBounds(Val(mask)) ELSE None
    /\ outline = IF IsSome(mask) THEN Some(buildMaskOutlinePath(Val(mask))) ELSE None
    /\ extracted = None
    /\ drag = NoDrag
    /\ liveRect = None
    /\ tool = "box"
    /\ zoom = ZOOM_STEPS[3]
    /\ pending = {}
    /\ phase = 0
    /\ app = InitApp
    /\ heap = NoHeap
    /\ sess = NoSess
    /\ last = NoLast

NextExtract ==
    \/ doExtract
    \/ handleClear
    \/ handleSelectAll

SpecExtract == InitExtract /\ [][NextExtract]_vars

\* SpecTick: the animation loop during box drags on image 2 at 1x, with
\* pointer events on the corners of the image.
NextTick ==
    \/ \E cx \in Corner(naturalWidth(image)), cy \in Corner(naturalHeight(image)),
          k \in Modifiers :
            onPointerDown(cx, cy, 0, k[1], k[2])
    \/ \E cx \in Corner(naturalWidth(image)), cy \in Corner(naturalHeight(image)) :
            onPointerMove(cx, cy)
    \/ \E k \in Modifiers : onPointerUp(k[1], k[2])
    \/ handleClear
    \/ tick

SpecTick == InitTools /\ [][NextTick]_vars

\* SpecScene: the box and lasso drags of a scripted session on the large
\* image at 1x. A Replace box drag starts at (10,10) on the unselected image
\* and ends at (50,50); a Shift box drag starts at (30,30) after it and ends
\* at (70,70); an Alt box drag starts at (20,20) after that and ends at
\* (40,40); a Replace lasso drag starts on the unselected image and ends
\* with fewer than 3 points or with the points (0,0), (50,0), (0,50). Between
\* pointer-down and pointer-up the pointer moves over the points of the drags
\* in any order.
InitScene ==
    /\ image = 4
    /\ mask = None
    /\ bounds = None
    /\ extracted = None
    /\ outline = None
    /\ drag = NoDrag
    /\ liveRect = None
    /\ tool = "box"
    /\ zoom = ZOOM_STEPS[3]
    /\ pending = {}
    /\ phase = 0
    /\ app = InitApp
    /\ heap = NoHeap
    /\ sess = NoSess
    /\ last = NoLast

\* The canvas position of image position <<x, y>>.
SceneAt(p) == <<(p[1] * zoom) \div 4, (p[2] * zoom) \div 4>>

SceneBoxPoints ==
    {<<10, 10>>, <<20, 20>>, <<30, 30>>, <<40, 40>>, <<50, 50>>, <<70, 70>>,
     <<50, 10>>, <<10, 50>>, <<70, 30>>, <<30, 70>>, <<40, 20>>, <<100, 100>>}
SceneLassoPoints == {<<0, 0>>, <<50, 0>>, <<0, 50>>}
ScenePoints == IF tool = "box" THEN SceneBoxPoints ELSE SceneLassoPoints

\* The pointer-downs of the scene: where, with which modifier keys, on which
\* selection.
SceneDowns ==
    IF tool = "lasso"
    THEN IF mask = None THEN {<<p, <<FALSE, FALSE>>>> : p \in SceneLassoPoints} ELSE {}
    ELSE IF mask = None THEN {<<<<10, 10>>, <<FALSE, FALSE>>>>}
    ELSE IF last.ev # "up" THEN {}
    ELSE IF ~last.sess.shiftKey /\ ~last.sess.altKey
    THEN {<<<<30, 30>>, <<TRUE, FALSE>>>>}
    ELSE IF last.sess.shiftKey
    THEN {<<<<20, 20>>, <<FALSE, TRUE>>>>}
    ELSE {}

\* The pointer is where the drag of the scene ends.
SceneEnd ==
    IF drag.kind = "box"
    THEN LET a == drag.startImgX
             b == IF a = 20 THEN 40 ELSE a + 40
         IN sess.moved /\ sess.ptr.span = [x |-> a, y |-> a, w |-> b - a, h |-> b - a]
    ELSE /\ drag.kind = "lasso"
         /\ \/ Len(drag.points) < 3
            \/ drag.points = <<[x |-> 0, y |-> 0], [x |-> 50, y |-> 0], [x |-> 0, y |-> 50]>>

NextScene ==
    \/ \E d \in SceneDowns :
            drag.kind = "none"
            /\ onPointerDown(SceneAt(d[1])[1], SceneAt(d[1])[2], 0, d[2][1], d[2][2])
    \/ \E p \in ScenePoints : onPointerMove(SceneAt(p)[1], SceneAt(p)[2])
    \/ SceneEnd /\ onPointerUp(FALSE, FALSE)
    \/ mask = None /\ drag.kind = "none" /\ setTool("lasso")

SpecScene == InitScene /\ [][NextScene]_vars

\* SpecTrace: the scaling of the tracer as a function of the size of the
\* mask. A call records the locals of buildMaskOutlinePath in last.
TraceSizes == {1, 2, 3, 100, 256, 511, 512, 513, 600, 1024, 2048}

traceCall(origW, origH) ==
    /\ last' = [ev |-> "trace", origW |-> origW, origH |-> origH,
                scale |-> traceScale(origW, origH),
                W |-> traceSize(origW, traceScale(origW, origH)),
                H |-> traceSize(origH, traceScale(origW, origH))]
    /\ UNCHANGED <<image, mask, bounds, extracted, outline, drag, liveRect, tool, zoom, app, heap,
                   pending, phase, sess>>

NextTrace == \E origW \in TraceSizes, origH \in TraceSizes : traceCall(origW, origH)

SpecTrace == Init /\ [][NextTrace]_vars

\* SpecLoad: loads that complete or fail in any order, around box drags
\* without modifier keys on the corners of the two one-row images, Select
\* All, and leaving and re-entering the splitter tab while no load is in
\* flight.
NextLoad ==
    \/ \E kind \in LoadKinds : StartLoad(kind)
    \/ \E handler \in {"reset", "drop"}, img \in SmallImages : CompleteLoad(handler, img)
    \/ \E handler \in {"reset", "drop"} : FailLoad(handler)
    \/ \E cx \in Corner(naturalWidth(image)), cy \in Corner(naturalHeight(image)) :
            onPointerDown(cx, cy, 0, FALSE, FALSE)
    \/ \E cx \in Corner(naturalWidth(image)), cy \in Corner(naturalHeight(image)) :
            onPointerMove(cx, cy)
    \/ onPointerUp(FALSE, FALSE)
    \/ handleSelectAll
    \/ pending = {} /\ remount

SpecLoad == Init /\ [][NextLoad]_vars

\* SpecUndo: undoable and other actions of the project, SNAPSHOT, undo and
\* redo, around Select All, Extract and Clear on image 2; the history, the layers and the library
\* stay within MaxHist, MaxLayers and MaxAssets.
NextUndo ==
    \/ \E c \in {0, 1} :
          Len(app.past) < MaxHist /\ dispatch([type |-> "SET_CONFIG", config |-> c])
    \/ \E id \in 1 .. MaxLayers :
          /\ Len(app.past) < MaxHist /\ Len(app.layers) < MaxLayers
          /\ dispatch([type |-> "ADD_LAYER", id |-> id])
    \/ \E id \in 1 .. MaxLayers : dispatch([type |-> "SELECT_LAYER", id |-> id])
    \/ dispatch([type |-> "TOGGLE_CONFIG"])
    \/ /\ Len(app.past) < MaxHist /\ Len(app.library) < MaxAssets
       /\ dispatch([type |-> "ADD_LIBRARY_ASSET", id |-> 1])
    \/ Len(app.past) < MaxHist /\ dispatch([type |-> "SNAPSHOT"])
    \/ dispatch([type |-> "UNDO"])
    \/ dispatch([type |-> "REDO"])
    \/ handleSelectAll
    \/ handleClear
    \/ hasSelection /\ doExtract

SpecUndo == InitTools /\ [][NextUndo]_vars

\* SpecLasso: lasso drags without modifier keys on image 2 at 1x, with
\* pointer-moves up to two image pixels outside the image on every side.
LassoMoveX == -2 .. naturalWidth(image) + 2
LassoMoveY == -2 .. naturalHeight(image) + 2

NextLasso ==
    \/ drag.kind = "none" /\ setTool("lasso")
    \/ \E cx \in 0 .. naturalWidth(image), cy \in 0 .. naturalHeight(image) :
          tool = "lasso" /\ drag.kind = "none" /\ onPointerDown(cx, cy, 0, FALSE, FALSE)
    \/ \E cx \in LassoMoveX, cy \in LassoMoveY :
          drag.kind = "lasso" /\ onPointerMove(cx, cy)
    \/ onPointerUp(FALSE, FALSE)

SpecLasso == InitTools /\ [][NextLasso]_vars

\* SpecHeap: box and handle drags on the corners of image 2 at 1x, Select
\* All, Extract and Clear, with the canvases followed as objects until
\* MaxObjs of them exist.
InitHeap ==
    /\ image = 2
    /\ mask = None
    /\ bounds = None
    /\ extracted = None
    /\ outline = None
    /\ drag = NoDrag
    /\ liveRect = None
    /\ tool = "box"
    /\ zoom = ZOOM_STEPS[3]
    /\ pending = {}
    /\ phase = 0
    /\ app = InitApp
    /\ heap = NewHeap
    /\ sess = NoSess
    /\ last = NoLast

NextHeap ==
    \/ \E cx \in Corner(naturalWidth(image)), cy \in Corner(naturalHeight(image)),
          k \in Modifiers :
            onPointerDown(cx, cy, 0, k[1], k[2])
    \/ \E cx \in Corner(naturalWidth(image)), cy \in Corner(naturalHeight(image)) :
            onPointerMove(cx, cy)
    \/ Len(heap.obj) < MaxObjs /\ onPointerUp(FALSE, FALSE)
    \/ Len(heap.obj) < MaxObjs /\ handleSelectAll
    \/ Len(heap.obj) < MaxObjs /\ hasSelection /\ doExtract
    \/ handleClear

SpecHeap == InitHeap /\ [][NextHeap]_vars

\* SpecHit: pointer-downs of the box and the lasso tool on image 1 at 16x, on
\* canvas positions at, 6 and 7 canvas pixels beside the pixel corners,
\* around box and handle drags that move to the pixel corners.
HitDowns == {0, 6, 7, 16, 22, 23, 32}
HitMoves == {0, 16, 32}

NextHit ==
    \/ \E cx \in HitDowns, cy \in HitDowns :
          drag.kind = "none" /\ onPointerDown(cx, cy, 0, FALSE, FALSE)
    \/ \E cx \in HitMoves, cy \in HitMoves :
          drag.kind \in {"box", "handle"} /\ onPointerMove(cx, cy)
    \/ onPointerUp(FALSE, FALSE)
    \/ \E t \in {"box", "lasso"} : drag.kind = "none" /\ setTool(t)
    \/ handleSelectAll

SpecHit == InitBox /\ [][NextHit]_vars

\* SpecHistory: histories of every length up to the cap, from the
\* construction on: SNAPSHOT, a SET_CONFIG that keeps the config, undo, redo,
\* TOGGLE_CONFIG, and LOAD_PROJECT and CLOSE_PROJECT of an empty project.
NextHistory ==
    \/ dispatch([type |-> "SNAPSHOT"])
    \/ dispatch([type |-> "SET_CONFIG", config |-> 0])
    \/ dispatch([type |-> "TOGGLE_CONFIG"])
    \/ dispatch([type |-> "UNDO"])
    \/ dispatch([type |-> "REDO"])
    \/ dispatch([type |-> "LOAD_PROJECT", config |-> 0, layers |-> <<>>,
                 selectedLayerId |-> None, library |-> <<>>])
    \/ dispatch([type |-> "CLOSE_PROJECT"])

SpecHistory == Init /\ [][NextHistory]_vars

\* ------------------------------------------------------------------ claims
\* The pixels a rectangle covers.
RectPixels(r) == (r.x .. r.x + r.w - 1) \X (r.y .. r.y + r.h - 1)

\* b is the tight bounding box of the non-empty pixel set S: every pixel of S
\* lies inside b and each border column and row of b holds a pixel of S.
IsTight(b, S) ==
    /\ \A p \in S : b.x <= p[1] /\ p[1] < b.x + b.w /\ b.y <= p[2] /\ p[2] < b.y + b.h
    /\ \E p \in S : p[1] = b.x
    /\ \E p \in S : p[1] = b.x + b.w - 1
    /\ \E p \in S : p[2] = b.y
    /\ \E p \in S : p[2] = b.y + b.h - 1

\* The mask that selects exactly rectangle r of image img.
RectMask(img, r) ==
    paintBox(createMask(naturalWidth(img), naturalHeight(img)), r.x, r.y, r.w, r.h, "replace")

\* The last event was the pointer-up of a box drag that committed.
BoxCommitted == last.ev = "up" /\ last.kind = "box" /\ last.did

\* The selected pixels before the last pointer-up.
PreOn == IF IsSome(last.pre[1]) THEN OnSet(Val(last.pre[1])) ELSE {}

\* C1 (union law): a box drag committed with no modifier leaves exactly its
\* rectangle selected, with that rectangle as bounds; a box drag of B
\* committed with Shift leaves the union of the pixels selected before and B
\* selected, with the tight bounding box of that union as bounds. After a
\* Replace of A and then an Add of B the selected pixels are therefore the
\* union of A and B.
C1_UnionLaw ==
    BoxCommitted =>
        LET B == RectPixels(Val(last.live))
            on == OnSet(Val(mask))
        IN /\ (~last.sess.shiftKey /\ ~last.sess.altKey) =>
                on = B /\ bounds = last.live
           /\ last.sess.shiftKey =>
                /\ on = PreOn \cup B
                /\ IsSome(bounds)
                /\ IsTight(Val(bounds), PreOn \cup B)

\* C1: the mask a Replace of the top-left pixel committed gets the bottom-right
\* pixel added: two pixels on a diagonal, bounds the whole image.
C1_Witness ==
    /\ BoxCommitted
    /\ last.sess.shiftKey
    /\ last.pre[1] = Some(RectMask(image, [x |-> 0, y |-> 0, w |-> 1, h |-> 1]))
    /\ last.live = Some([x |-> 1, y |-> 1, w |-> 1, h |-> 1])
    /\ OnSet(Val(mask)) = {<<0, 0>>, <<1, 1>>}
    /\ bounds = Some([x |-> 0, y |-> 0, w |-> 2, h |-> 2])

\* C2 (subtract law): a box drag of B committed with Alt leaves every pixel of
\* B off and every pixel that was selected outside B on, and selects nothing
\* else: from a mask selecting A union B it leaves exactly A without B.
C2_SubtractLaw ==
    (BoxCommitted /\ ~last.sess.shiftKey /\ last.sess.altKey) =>
        LET B == RectPixels(Val(last.live))
            on == OnSet(Val(mask))
        IN /\ on \cap B = {}
           /\ PreOn \ B \subseteq on
           /\ on \subseteq PreOn

\* C2: from the union of the first row (A) and the second column (B), the
\* subtraction of B leaves the top-left pixel.
C2_Witness ==
    /\ BoxCommitted
    /\ ~last.sess.shiftKey /\ last.sess.altKey
    /\ PreOn = RectPixels([x |-> 0, y |-> 0, w |-> 2, h |-> 1])
               \cup RectPixels([x |-> 1, y |-> 0, w |-> 1, h |-> 2])
    /\ last.live = Some([x |-> 1, y |-> 0, w |-> 1, h |-> 2])
    /\ OnSet(Val(mask)) = {<<0, 0>>}

\* C3 (handle-resize destructiveness): after the pointer-up of every handle
\* drag that ends over a committed mask, the mask selects exactly an
\* axis-aligned rectangle, the bounds are that rectangle (the rectangle the
\* drag recorded, if it recorded one) and the number of selected pixels is its
\* width times its height.
C3_HandleReplaces ==
    (last.ev = "up" /\ last.kind = "handle" /\ IsSome(last.pre[1])) =>
        /\ IsSome(mask) /\ IsSome(bounds)
        /\ Val(mask) = RectMask(image, Val(bounds))
        /\ Cardinality(OnSet(Val(mask))) = Val(bounds).w * Val(bounds).h
        /\ IsSome(last.live) => bounds = last.live

\* C4 (bounds): the bounds are null exactly when there is no mask or the mask
\* selects no pixel, and otherwise they are the tight bounding box of the
\* selected pixels.
C4_BoundsIffSelected ==
    /\ bounds = None <=> (mask = None \/ OnSet(Val(mask)) = {})
    /\ IsSome(bounds) => IsTight(Val(bounds), OnSet(Val(mask)))

\* C4: a commit left a mask that selects nothing, and the bounds are null.
C4_Witness ==
    /\ last.ev = "up" /\ last.did
    /\ IsSome(mask)
    /\ OnSet(Val(mask)) = {}
    /\ bounds = None

\* C5 (mask dimensions): a committed mask has the width and height of the
\* current image, and without an image there is neither mask nor bounds.
C5_MaskFitsImage ==
    /\ image = 0 => mask = None /\ bounds = None
    /\ (image # 0 /\ IsSome(mask)) =>
         Val(mask).w = naturalWidth(image) /\ Val(mask).h = naturalHeight(image)

\* The pointer-up or pointer-leave that ends a box, lasso or handle drag.
DragEnds ==
    /\ drag.kind \in {"box", "lasso", "handle"}
    /\ last'.ev \in {"up", "leave"}
    /\ \E k \in Modifiers :
         /\ last'.upMode = selectionMode(k[1], k[2])
         /\ \/ last'.ev = "up" /\ onPointerUp(k[1], k[2])
            \/ last'.ev = "leave" /\ onPointerLeave(k[1], k[2])

C7_DegenerateDiscarded ==
    (last.ev = "up" /\ last.kind = "box" /\ last.sess.moved
     /\ (last.sess.ptr.sameX \/ last.sess.ptr.sameY)) =>
        committed = last.pre

\* C8 (clamping): a box drag whose start and last pointer position span,
\* clamped to the image, a rectangle of non-zero width and height commits, and
\* commits that rectangle.
C8_ClampedSpan ==
    (last.ev = "up" /\ last.kind = "box"
     /\ last.sess.ptr.span.w > 0 /\ last.sess.ptr.span.h > 0) =>
        last.did /\ last.live = Some(last.sess.ptr.span)

\* C9 (no stale preview): a drag that has received no pointer-move has no
\* live rectangle, and the pointer-up of a box or lasso drag that received no
\* pointer-move commits nothing.
C9_NoStalePreview ==
    /\ (drag.kind # "none" /\ ~sess.moved) => liveRect = None
    /\ (last.ev = "up" /\ last.kind \in {"box", "lasso"} /\ ~last.sess.moved) =>
         ~last.did /\ committed = last.pre

\* C10 (mode fixed at pointer-down): during a box or lasso drag the mode of
\* the drag is the one the modifier keys of its pointer-down select (Shift
\* add, Alt subtract, neither replace), and the mask its pointer-up commits is
\* painted in that mode whatever the modifier keys of the pointer-up are.
C10_ModeFixedAtDown ==
    [][/\ drag.kind \in {"box", "lasso"} =>
              drag.mode = selectionMode(sess.shiftKey, sess.altKey)
       /\ \A k \in Modifiers :
            (drag.kind \in {"box", "lasso"} /\ Commits(drag, liveRect)
             /\ last'.ev = "up" /\ last'.upMode = selectionMode(k[1], k[2])
             /\ onPointerUp(k[1], k[2])) =>
                mask' = Some(NewMask(drag, liveRect, image, mask,
                                     selectionMode(sess.shiftKey, sess.altKey)))]_vars

\* C10: a lasso drag started with Alt was committed by a pointer-up whose
\* modifier keys select another mode, and it removed pixels.
C10_Witness ==
    /\ last.ev = "up" /\ last.kind = "lasso" /\ last.did
    /\ last.sess.altKey /\ ~last.sess.shiftKey
    /\ last.upMode # "subtract"
    /\ PreOn # {}
    /\ OnSet(Val(mask)) # PreOn
    /\ OnSet(Val(mask)) \subseteq PreOn

\* C11: a pointer-up that ends a lasso drag of fewer than 3 recorded points
\* leaves mask, bounds, outline and extraction as they were, whatever the
\* mode of the drag (Replace included).
C11_ShortLassoDiscarded ==
    [][(/\ drag.kind = "lasso"
        /\ Len(drag.points) < 3
        /\ last'.ev = "up"
        /\ \E k \in Modifiers : onPointerUp(k[1], k[2])) => UNCHANGED committed]_vars

\* A Replace lasso drag that moved, recorded fewer than 3 points and ended
\* over an existing selection, which is still there.
C11_Witness ==
    /\ last.ev = "up" /\ last.kind = "lasso" /\ ~last.did
    /\ last.sess.moved /\ ~last.sess.shiftKey /\ ~last.sess.altKey
    /\ PreOn # {}
    /\ committed = last.pre

\* The pointer events of SpecTools that end a drag.
EndsDrag == \E k \in Modifiers : onPointerUp(k[1], k[2]) \/ onPointerLeave(k[1], k[2])

\* C12: a middle-button pointer-down starts a pan whatever the tool and
\* changes nothing that is committed; a pointer-move during the pan leaves
\* the pan, the live rectangle and everything committed as they are; the
\* pointer-up or pointer-leave that ends it leaves everything committed as it
\* is and no drag behind.
C12_PanLeavesSelection ==
    [][/\ onPointerDown(0, 0, 1, FALSE, FALSE)
            => drag'.kind = "pan" /\ UNCHANGED <<committed, liveRect>>
       /\ (/\ drag.kind = "pan"
           /\ \E cx \in Corner(naturalWidth(image)), cy \in Corner(naturalHeight(image)) :
                 onPointerMove(cx, cy))
            => UNCHANGED <<drag, liveRect, committed>>
       /\ (drag.kind = "pan" /\ EndsDrag)
            => drag' = NoDrag /\ UNCHANGED committed]_vars

\* A pan with the lasso tool selected that moved and ended over an existing
\* selection.
C12_Witness ==
    /\ last.ev \in {"up", "leave"} /\ last.kind = "pan" /\ last.sess.moved
    /\ tool = "lasso"
    /\ PreOn # {}
    /\ committed = last.pre
    /\ drag = NoDrag

\* What a pointer-up in the current state commits: mask, bounds, outline and
\* extraction after it.
AfterUp(shiftKey, altKey) ==
    IF Commits(drag, liveRect)
    THEN LET m == NewMask(drag, liveRect, image, mask, CommitMode(drag, shiftKey, altKey))
         IN <<Some(m), computeBounds(m), Some(buildMaskOutlinePath(m)), None>>
    ELSE committed

\* C13: a pointer-leave during a box, lasso or handle drag commits exactly
\* what a pointer-up in the same state commits, and after the pointer-up or
\* pointer-leave that ends a drag there is no drag and no live rectangle.
C13_LeaveIsUp ==
    [][/\ \A k \in Modifiers :
            (/\ drag.kind \in {"box", "lasso", "handle"}
             /\ last'.ev = "leave"
             /\ last'.upMode = selectionMode(k[1], k[2])
             /\ onPointerLeave(k[1], k[2]))
            => committed' = AfterUp(k[1], k[2])
       /\ last'.ev \in {"up", "leave"} => drag' = NoDrag /\ liveRect' = None]_vars

\* A pointer-leave ended a box, lasso or handle drag and committed its shape.
C13_Witness ==
    /\ last.ev = "leave" /\ last.kind \in {"box", "lasso", "handle"} /\ last.did
    /\ IsSome(bounds)
    /\ drag = NoDrag /\ liveRect = None

\* There is no active selection: no image, no mask or no bounds.
NoSelection == image = 0 \/ ~IsSome(mask) \/ ~IsSome(bounds)

\* C14: without an active selection doExtract returns null and stores
\* nothing: the extraction is what it was, and a commit that left no pixel
\* selected or a Clear has left none.
C14_NoSelectionNoExtract ==
    [][(NoSelection /\ doExtract)
          => /\ last'.result = None
             /\ extracted' = extracted
             /\ (~IsSome(mask) \/ OnSet(Val(mask)) = {}) => extracted' = None]_vars

\* doExtract was called on an image whose committed mask selects no pixel.
C14_Witness ==
    /\ last.ev = "extract" /\ last.result = None
    /\ image # 0 /\ IsSome(mask) /\ bounds = None
    /\ extracted = None

\* doExtract has just extracted the current selection.
Extracted == last.ev = "extract" /\ IsSome(last.result) /\ hasSelection

\* The source alpha and the mask coverage at pixel p of the image.
SrcAt(p) == ImageAlpha(image, p[1], p[2])
CovAt(p) == Val(mask).pix[p]

\* C15: when no pixel of the crop through the mask is visible, and so
\* whenever the source is transparent at every selected pixel, the extraction
\* is the blank buffer of the size of the bounds.
C15_BlankUntrimmed ==
    Extracted =>
        LET b == Val(bounds)
            blank == [w |-> b.w, h |-> b.h, pix |-> [p \in Pixels(b.w, b.h) |-> 0]]
        IN (\/ OnSet(CropThroughMask(image, Val(mask), b)) = {}
            \/ \A p \in OnSet(Val(mask)) : SrcAt(p) = 0)
           => extracted = Some(blank)

\* An extraction of a selection over transparent source pixels only.
C15_Witness ==
    /\ Extracted
    /\ \A p \in OnSet(Val(mask)) : SrcAt(p) = 0
    /\ IsSome(extracted)
    /\ Val(extracted).w = Val(bounds).w /\ Val(extracted).h = Val(bounds).h
    /\ OnSet(Val(extracted)) = {}

\* The non-transparent pixels of the source image.
Visible == {p \in Pixels(naturalWidth(image), naturalHeight(image)) : SrcAt(p) > 0}

\* C16: the extraction of the selection of the whole image (Replace) is the
\* source cropped to the tight box of its non-transparent pixels: the size
\* of that box and the source's pixel values.
C16_SelectAllRoundTrip ==
    (/\ Extracted
     /\ Val(mask) = RectMask(image, [x |-> 0, y |-> 0, w |-> naturalWidth(image),
                                     h |-> naturalHeight(image)])
     /\ Visible # {})
    => LET x0 == Min({p[1] : p \in Visible})
           y0 == Min({p[2] : p \in Visible})
           e == Val(extracted)
       IN /\ e.w = Max({p[1] : p \in Visible}) - x0 + 1
          /\ e.h = Max({p[2] : p \in Visible}) - y0 + 1
          /\ \A p \in Pixels(e.w, e.h) : e.pix[p] = SrcAt(<<p[1] + x0, p[2] + y0>>)

\* An extraction of the whole image that is smaller than the image and keeps
\* a partly transparent pixel.
C16_Witness ==
    /\ Extracted
    /\ OnSet(Val(mask)) = Pixels(naturalWidth(image), naturalHeight(image))
    /\ \A p \in OnSet(Val(mask)) : CovAt(p) = AlphaMax
    /\ Val(extracted).w < naturalWidth(image)
    /\ \E p \in Pixels(Val(extracted).w, Val(extracted).h) :
          0 < Val(extracted).pix[p] /\ Val(extracted).pix[p] < AlphaMax

\* C17: at every pixel of the bounding box the buffer before trimming has
\* the smaller of the source alpha and the mask coverage.
C17_CropIsMin ==
    Extracted =>
        LET b == Val(bounds)
            crop == CropThroughMask(image, Val(mask), b)
        IN \A p \in Pixels(b.w, b.h) :
             crop.pix[p] = Min({SrcAt(<<p[1] + b.x, p[2] + b.y>>),
                                CovAt(<<p[1] + b.x, p[2] + b.y>>)})

\* The four sides of a pixel, as the step to the neighbour across the side.
Sides == {<<0, -1>>, <<0, 1>>, <<-1, 0>>, <<1, 0>>}

\* The unit edge between the two corners of pixel p on side d.
SideEdge(p, d) ==
    IF d = <<0, -1>> THEN <<p[1], p[2], p[1] + 1, p[2]>>
    ELSE IF d = <<0, 1>> THEN <<p[1], p[2] + 1, p[1] + 1, p[2] + 1>>
    ELSE IF d = <<-1, 0>> THEN <<p[1], p[2], p[1], p[2] + 1>>
    ELSE <<p[1] + 1, p[2], p[1] + 1, p[2] + 1>>

\* The sides of selected pixels whose neighbour is unselected or outside.
OpenSides(m) ==
    {s \in OnSet(m) \X Sides :
        <<s[1][1] + s[2][1], s[1][2] + s[2][2]>> \notin OnSet(m)}

\* C18: the outline traced from the mask holds the edge of a pixel's side
\* exactly when the pixel is selected and the neighbour across that side is
\* unselected or outside the mask; it holds nothing else, and as many edges
\* as the selected pixels have such sides (the pixel perimeter).
C18_OutlineIsPerimeter ==
    (IsSome(outline) /\ IsSome(mask)) =>
        LET m == Val(mask)
        IN /\ \A p \in DOMAIN m.pix, d \in Sides :
                (<<p, d>> \in OpenSides(m)) => SideEdge(p, d) \in Val(outline)
           /\ \A e \in Val(outline) : \E s \in OpenSides(m) : e = SideEdge(s[1], s[2])
           /\ Cardinality(Val(outline)) = Cardinality(OpenSides(m))

\* A box commit left three pixels of the 2x2 mask selected; their outline
\* has 8 edges and none between two selected pixels.
C18_Witness ==
    /\ BoxCommitted
    /\ IsSome(outline) /\ IsSome(mask)
    /\ Cardinality(OnSet(Val(mask))) = 3
    /\ Cardinality(Val(outline)) = 8
    /\ Val(outline) \cap {<<1, 0, 1, 1>>, <<0, 1, 1, 1>>, <<1, 1, 2, 1>>, <<1, 1, 1, 2>>}
          = {e \in {<<1, 0, 1, 1>>, <<0, 1, 1, 1>>, <<1, 1, 2, 1>>, <<1, 1, 1, 2>>} :
                \E s \in OpenSides(Val(mask)) : e = SideEdge(s[1], s[2])}
    /\ Cardinality(Val(outline) \cap {<<1, 0, 1, 1>>, <<0, 1, 1, 1>>, <<1, 1, 2, 1>>,
                                       <<1, 1, 1, 2>>}) = 2

\* C19: a tick in a state without stored bounds and without an active drag
\* changes nothing, the dash phase included.
C19_TickDormantWithoutSelection ==
    [][(tick /\ ~IsSome(bounds) /\ drag.kind = "none") => UNCHANGED vars]_vars

\* The last event was the pointer-up of a box drag that committed in Replace
\* mode.
ReplaceCommitted == BoxCommitted /\ ~last.sess.shiftKey /\ ~last.sess.altKey

\* C20: after a box commit in Replace mode, mask and bounds are determined
\* by the committed rectangle alone (full coverage inside it, none outside,
\* bounds the rectangle), whatever the mask was before; so when the mask
\* before was that of a Replace commit of the same rectangle, mask and
\* bounds are what they were.
C20_ReplaceIdempotent ==
    ReplaceCommitted =>
        LET r == Val(last.live)
        IN /\ IsSome(mask)
           /\ \A p \in DOMAIN Val(mask).pix :
                 Val(mask).pix[p] = IF p \in RectPixels(r) THEN AlphaMax ELSE 0
           /\ bounds = Some(r)
           /\ (/\ IsSome(last.pre[1])
               /\ OnSet(Val(last.pre[1])) = RectPixels(r)
               /\ \A p \in RectPixels(r) : Val(last.pre[1]).pix[p] = AlphaMax)
              => (mask = last.pre[1] /\ bounds = last.pre[2])

\* The second of two Replace commits of the same one-pixel rectangle.
C20_Witness ==
    /\ ReplaceCommitted
    /\ last.pre[1] = mask
    /\ last.pre[2] = bounds
    /\ bounds = last.live
    /\ Val(last.live).w * Val(last.live).h = 1

\* The rectangle from corner (a, a) to corner (b, b).
Square(a, b) == [x |-> a, y |-> a, w |-> b - a, h |-> b - a]

\* The last event was the pointer-up of a box drag with the given modifier
\* keys whose pointer went from one corner of r to the opposite one, on a
\* selection with bounds pre and n selected pixels.
SceneStep(shiftKey, altKey, r, pre, n) ==
    /\ BoxCommitted
    /\ last.sess.shiftKey = shiftKey /\ last.sess.altKey = altKey
    /\ last.sess.ptr.span = r
    /\ last.pre[2] = pre
    /\ Cardinality(PreOn) = n

\* C21: on the 100x100 image, the Replace box (10,10)-(50,50) gives bounds
\* {10,10,40,40} and 1600 selected pixels; the Shift box (30,30)-(70,70)
\* after it gives bounds {10,10,60,60} and 2800 selected pixels; the Alt box
\* (20,20)-(40,40) after that leaves 2400 selected pixels, none of them in
\* the rectangle (20,20)-(40,40).
C21_BoxScenario ==
    /\ SceneStep(FALSE, FALSE, Square(10, 50), None, 0)
         => bounds = Some(Square(10, 50)) /\ Cardinality(OnSet(Val(mask))) = 1600
    /\ SceneStep(TRUE, FALSE, Square(30, 70), Some(Square(10, 50)), 1600)
         => bounds = Some(Square(10, 70)) /\ Cardinality(OnSet(Val(mask))) = 2800
    /\ SceneStep(FALSE, TRUE, Square(20, 40), Some(Square(10, 70)), 2800)
         => /\ Cardinality(OnSet(Val(mask))) = 2400
            /\ OnSet(Val(mask)) \cap RectPixels(Square(20, 40)) = {}

\* The third step of the scenario has been committed on the results of the
\* first two.
C21_Witness ==
    /\ image = 4 /\ SceneSize = 100
    /\ SceneStep(FALSE, TRUE, Square(20, 40), Some(Square(10, 70)), 2800)
    /\ Cardinality(OnSet(Val(mask))) = 2400
    /\ bounds = Some(Square(10, 70))

\* C22: on the 100x100 image a Replace lasso drag that recorded the points
\* (0,0), (50,0), (0,50) commits bounds {0,0,50,50} and about 1275 selected
\* pixels (between the 1225 pixels inside the triangle and the 1325 pixels
\* it touches), fewer than the 2500 pixels of the bounding box.
C22_LassoScenario ==
    [][(/\ drag.kind = "lasso"
        /\ drag.mode = "replace"
        /\ drag.points = <<[x |-> 0, y |-> 0], [x |-> 50, y |-> 0], [x |-> 0, y |-> 50]>>
        /\ last'.ev = "up"
        /\ onPointerUp(FALSE, FALSE))
       => /\ bounds' = Some(Square(0, 50))
          /\ Cardinality(OnSet(Val(mask'))) \in 1225 .. 1325
          /\ Cardinality(OnSet(Val(mask'))) < 2500]_vars

\* A Replace lasso drag on the 100x100 image has committed a triangle with
\* bounds {0,0,50,50} that selects fewer pixels than its bounding box.
C22_Witness ==
    /\ image = 4 /\ SceneSize = 100
    /\ last.ev = "up" /\ last.kind = "lasso" /\ last.did
    /\ ~last.sess.shiftKey /\ ~last.sess.altKey
    /\ last.pre[1] = None
    /\ bounds = Some(Square(0, 50))
    /\ Cardinality(OnSet(Val(mask))) \in 1225 .. 1325

\* C23: for a mask whose width and height are at most the cap, the tracer's
\* scale is exactly 1, its grid has the width and height of the mask, and
\* every coordinate it can emit is an integer between 0 and the width or the
\* height of the mask.
C23_ScaleOneUnderCap ==
    (last.ev = "trace" /\ Max({last.origW, last.origH}) <= MAX_TRACE) =>
        /\ last.scale[1] = last.scale[2]
        /\ last.W = last.origW /\ last.H = last.origH
        /\ \A c \in traceCoords(last.W, last.scale) :
              c[1] % c[2] = 0 /\ c[1] \div c[2] \in 0 .. last.origW
        /\ \A c \in traceCoords(last.H, last.scale) :
              c[1] % c[2] = 0 /\ c[1] \div c[2] \in 0 .. last.origH

\* The tracer was called on a mask as wide as the cap.
C23_Witness ==
    /\ last.ev = "trace"
    /\ last.origW = 512 /\ last.origH = 511
    /\ last.W = 512 /\ last.H = 511

\* C24: when the decode of a pending load fails, an error outcome is handed
\* to the caller, no load is started in its place, and the image, the mask
\* and the bounds stay as they were.
C24_DecodeFailureSurfaced ==
    [][last'.ev = "error" =>
          /\ IsSome(last'.outcome)
          /\ pending' \subseteq pending
          /\ UNCHANGED <<image, mask, bounds>>]_vars

\* C25: an undo or a redo leaves the source image, the mask, the bounds, the
\* extracted image and the other fields outside the snapshot as they were.
C25_UndoKeepsSplitter ==
    [][(last'.ev \in {"UNDO", "REDO"}
          /\ (dispatch([type |-> "UNDO"]) \/ dispatch([type |-> "REDO"])))
       => /\ UNCHANGED <<image, mask, bounds, extracted>>
          /\ app'.showConfig = app.showConfig
          /\ UNCHANGED <<outline, drag, liveRect, tool, zoom, pending, phase>>]_vars

\* An undo restored an earlier project while a selection was committed and
\* the configuration dialog was open.
C25_Witness ==
    /\ last.ev = "UNDO"
    /\ Len(app.future) > 0
    /\ IsSome(mask) /\ IsSome(bounds)
    /\ app.showConfig

\* C26: a pointer-move of a handle drag that records a rectangle keeps every
\* edge the handle does not name where the bounds had it at the
\* pointer-down: the left edge unless the handle names w, the right edge
\* unless it names e, the top edge unless it names n and the bottom edge
\* unless it names s.
C26_UnnamedEdgesStay ==
    [][(drag.kind = "handle" /\ drag' = drag /\ liveRect' # liveRect /\ IsSome(liveRect')) =>
        LET r == Val(liveRect')
            o == drag.origBounds
        IN  /\ ~HasW(drag.handleId) => r.x = o.x
            /\ ~HasE(drag.handleId) => r.x + r.w = o.x + o.w
            /\ ~HasN(drag.handleId) => r.y = o.y
            /\ ~HasS(drag.handleId) => r.y + r.h = o.y + o.h]_vars

\* C27: in every state the cached outline is absent exactly when no mask is
\* committed, and otherwise it is the outline traced from the committed
\* mask.
C27_OutlineMatchesMask ==
    /\ outline = None <=> mask = None
    /\ IsSome(mask) => outline = Some(buildMaskOutlinePath(Val(mask)))

\* C28: in every state of a lasso drag, two consecutive recorded points
\* differ by at least 2 image pixels in x or in y.
C28_LassoPointsApart ==
    drag.kind = "lasso" =>
        \A i \in 1 .. Len(drag.points) - 1 :
            \/ Abs(drag.points[i + 1].x - drag.points[i].x) >= 2
            \/ Abs(drag.points[i + 1].y - drag.points[i].y) >= 2

\* C29: when a load completes, whatever was committed before and whatever
\* other loads are in flight, the selection is empty afterwards: no mask or
\* a mask that selects no pixel, no bounds, no outline and no extracted
\* image.
C29_LoadEmptiesSelection ==
    [][(/\ pending' # pending
        /\ last'.ev = "none"
        /\ \E handler \in pending, img \in SmallImages : CompleteLoad(handler, img))
       => /\ mask' = None \/ OnSet(Val(mask')) = {}
          /\ bounds' = None
          /\ outline' = None
          /\ extracted' = None]_vars

\* C30: the rectangle or the polygon a pointer-up or a pointer-leave commits
\* lies inside the image that is current at the commit: the rectangle has
\* 0 <= x, x + w <= width, 0 <= y, y + h <= height, and every lasso point is
\* in [0, width] x [0, height].
C30_CommitInsideImage ==
    [][(last'.ev \in {"up", "leave"} /\ last'.did) =>
          IF drag.kind = "lasso"
          THEN \A i \in 1 .. Len(drag.points) :
                  /\ drag.points[i].x \in 0 .. naturalWidth(image)
                  /\ drag.points[i].y \in 0 .. naturalHeight(image)
          ELSE /\ 0 <= Val(liveRect).x
               /\ Val(liveRect).x + Val(liveRect).w <= naturalWidth(image)
               /\ 0 <= Val(liveRect).y
               /\ Val(liveRect).y + Val(liveRect).h <= naturalHeight(image)]_vars

\* C31: whenever an extracted image is stored, it is the extraction of the
\* current source image through the currently committed mask and bounds.
C31_ExtractedIsCurrent ==
    IsSome(extracted) => extracted = ExtractResult

\* C32: no step changes the content of a canvas that exists: a commit (box,
\* lasso, handle, Select All) and an extraction write into a canvas they
\* create, so the previously committed mask and every extracted image
\* handed out hold afterwards what they held before.
C32_OldCanvasesKept ==
    [][heap.tracked =>
          /\ Len(heap'.obj) >= Len(heap.obj)
          /\ \A id \in 1 .. Len(heap.obj) : heap'.obj[id] = heap.obj[id]]_vars

\* A Subtract commit composed a mask from the committed one after an extraction
\* of it was handed out: the old mask and the extraction exist next to the
\* new mask, which differs from the old one.
C32_Witness ==
    /\ last.ev = "up" /\ last.kind = "box" /\ last.did /\ last.sess.altKey
    /\ IsSome(last.pre[1]) /\ IsSome(last.pre[4])
    /\ heap.tracked /\ Len(heap.obj) >= 3
    /\ heap.obj[heap.mask] = Val(mask)
    /\ \E id \in 1 .. Len(heap.obj) :
          id # heap.mask /\ Some(heap.obj[id]) = last.pre[1] /\ last.pre[1] # mask

\* The canvas position is within 6 canvas pixels, on each axis, of one of
\* the eight handle positions of the bounds b: the corners and the middles
\* of the sides of b times the zoom factor (compared in eighths of a pixel).
NearHandle(cx, cy, b) ==
    \E j \in 0 .. 2, k \in 0 .. 2 :
        /\ <<j, k>> # <<1, 1>>
        /\ Abs(8 * cx - (2 * b.x + j * b.w) * zoom) <= 48
        /\ Abs(8 * cy - (2 * b.y + k * b.h) * zoom) <= 48

\* C33: a left pointer-down starts a handle drag exactly when the tool is
\* box, the bounds are not null and the pointer is within the hit radius of
\* a handle of the current bounds; the drag then keeps the current bounds as
\* origBounds. Otherwise it starts a box drag with the box tool and a lasso
\* drag with the lasso tool.
C33_HandleDragIff ==
    [][\A cx \in HitDowns, cy \in HitDowns :
          (/\ drag.kind = "none" /\ drag'.kind # "none"
           /\ drag' = DownDrag(cx, cy, 0, FALSE, FALSE)
           /\ onPointerDown(cx, cy, 0, FALSE, FALSE))
          => /\ drag'.kind = "handle" <=>
                  (tool = "box" /\ IsSome(bounds) /\ NearHandle(cx, cy, Val(bounds)))
             /\ drag'.kind = "handle" => drag'.origBounds = Val(bounds)
             /\ drag'.kind # "handle" =>
                  drag'.kind = (IF tool = "box" THEN "box" ELSE "lasso")]_vars

\* A handle drag started 6 canvas pixels beside a handle of bounds smaller
\* than the image.
C33_Witness ==
    /\ drag.kind = "handle" /\ ~sess.moved
    /\ drag.origBounds = [x |-> 0, y |-> 0, w |-> 1, h |-> 1]
    /\ drag.handleId = "se"
    /\ bounds = Some(drag.origBounds)

\* C34: every pointer-move of a handle drag whose origBounds lie inside the
\* image records a rectangle of width and height at least 1 that lies
\* inside the image.
C34_HandleRectValid ==
    [][(/\ drag.kind = "handle" /\ drag' = drag /\ sess'.moved
        /\ UNCHANGED committed
        /\ drag.origBounds.x >= 0 /\ drag.origBounds.y >= 0
        /\ drag.origBounds.w >= 1 /\ drag.origBounds.h >= 1
        /\ drag.origBounds.x + drag.origBounds.w <= naturalWidth(image)
        /\ drag.origBounds.y + drag.origBounds.h <= naturalHeight(image))
       => /\ IsSome(liveRect')
          /\ Val(liveRect').w >= 1 /\ Val(liveRect').h >= 1
          /\ Val(liveRect').x >= 0 /\ Val(liveRect').y >= 0
          /\ Val(liveRect').x + Val(liveRect').w <= naturalWidth(image)
          /\ Val(liveRect').y + Val(liveRect').h <= naturalHeight(image)]_vars

\* The e handle of bounds two pixels wide was dragged to or past the left
\* edge of the bounds: the rectangle recorded is one pixel wide.
C34_Witness ==
    /\ drag.kind = "handle" /\ sess.moved
    /\ drag.handleId = "e"
    /\ drag.origBounds.w = 2
    /\ IsSome(liveRect) /\ Val(liveRect).w = 1

\* C35: in every state the undo stack holds at most MAX_HISTORY snapshots,
\* and the undo and the redo stack together hold at most MAX_HISTORY.
C35_HistoryCapped ==
    /\ Len(app.past) <= MAX_HISTORY
    /\ Len(app.past) + Len(app.future) <= MAX_HISTORY

\* A SNAPSHOT was pushed on a full undo stack, and a redo filled the undo
\* stack again.
C35_Witness ==
    /\ last.ev \in {"SNAPSHOT", "REDO"}
    /\ Len(app.past) = MAX_HISTORY

\* The envelope of the reducer in the current state.
Envelope == [past |-> app.past, present |-> present, future |-> app.future]

\* C36: after an UNDO on a non-empty undo stack, a REDO gives back the
\* config, layers, selectedLayerId and library of the present and both
\* stacks as they were before the UNDO; an UNDO on an empty undo stack and a
\* REDO on an empty redo stack change nothing.
C36_UndoRedoRoundTrip ==
    [][/\ (last'.ev = "UNDO" /\ Len(app.past) > 0) =>
            LET redone == undoRedoReducer(Envelope', [type |-> "REDO"])
            IN  /\ redone.past = app.past
                /\ redone.future = app.future
                /\ redone.present.config = app.config
                /\ redone.present.layers = app.layers
                /\ redone.present.selectedLayerId = app.selectedLayerId
                /\ redone.present.library = app.library
       /\ (last'.ev = "UNDO" /\ Len(app.past) = 0) => Envelope' = Envelope
       /\ (last'.ev = "REDO" /\ Len(app.future) = 0) => Envelope' = Envelope]_vars

\* An UNDO took back the layer that was added and selected: the redo stack
\* holds the project with the layer.
C36_Witness ==
    /\ last.ev = "UNDO"
    /\ Len(app.future) > 0
    /\ app.future[1].layers # app.layers
    /\ app.future[1].selectedLayerId # app.selectedLayerId

\* The four fields of the present that a snapshot keeps.
Project ==
    [config |-> app.config, layers |-> app.layers,
     selectedLayerId |-> app.selectedLayerId, library |-> app.library]

C38_LargeTraceSpansImage ==
    (last.ev = "trace" /\ Max({last.origW, last.origH}) > MAX_TRACE) =>
        /\ last.W \in 1 .. MAX_TRACE /\ last.H \in 1 .. MAX_TRACE
        /\ \A c \in traceCoords(last.W, last.scale) : c[1] <= last.origW * c[2]
        /\ \E c \in traceCoords(last.W, last.scale) : c[1] = last.origW * c[2]
        /\ \A c \in traceCoords(last.H, last.scale) : c[1] <= last.origH * c[2]
        /\ \E c \in traceCoords(last.H, last.scale) : c[1] = last.origH * c[2]
        /\ last.W * Max({last.origW, last.origH}) = MAX_TRACE * last.origW
        /\ last.H * Max({last.origW, last.origH}) = MAX_TRACE * last.origH

\* C39: a box or lasso drag committed in Subtract mode leaves every pixel the
\* shape overlaps, also one that the polygon covers only in part, off, and
\* every other pixel with the coverage it had; a Lasso Subtract of the
\* polygon that a Lasso Add has painted on an empty mask therefore leaves no
\* selected pixel and no bounds.
C39_SubtractTurnsOff ==
    [][(/\ last'.ev \in {"up", "leave"}
        /\ drag.kind \in {"box", "lasso"}
        /\ drag.mode = "subtract"
        /\ Commits(drag, liveRect))
       => /\ IsSome(mask')
          /\ \A p \in DOMAIN Val(mask').pix :
                LET before == IF IsSome(mask) THEN Val(mask).pix[p] ELSE 0
                    overlapped == IF drag.kind = "lasso"
                                  THEN Coverage(drag.points, p[1], p[2]) > 0
                                  ELSE p \in RectPixels(Val(liveRect))
                IN Val(mask').pix[p] = IF overlapped THEN 0 ELSE before
          /\ (\A p \in DOMAIN Val(mask').pix :
                 (IsSome(mask) /\ Val(mask).pix[p] > 0) =>
                    drag.kind = "lasso" /\ Coverage(drag.points, p[1], p[2]) > 0)
             => bounds' = None]_vars

====
